---- MODULE Spec2Model ----
(***************************************************************************)
(* Hydraulic erosion: the droplet of src/droplet.py (the same class is     *)
(* defined inline in src/cluster_run.py) and the batched simulation loop   *)
(* of src/cluster_run.py main().                                           *)
(*                                                                         *)
(* Floats are modelled in fixed point: a real x is the integer x * One,    *)
(* every product is rounded to the nearest unit.  Heights, sediment,       *)
(* volume, positions, velocities and gradients are all in these units.     *)
(***************************************************************************)
EXTENDS Integers, Sequences, FiniteSets, TLC

VARIABLES
    terrain,        \* the heightmap, [Cells -> fixed point]
    grad_terrain,   \* <<d/drow grid, d/dcol grid>>, np.gradient(terrain)
    pepe,           \* the one droplet object, reused for every lifetime
    args,           \* the command line values the droplet reads
    erosion_kernel, \* the kernel argument the droplet was constructed with
    rng,            \* hidden state of np.random's global generator
    pc,             \* position of main() in its loops
    cycle_c,        \* c of "for c in range(cycles)"
    batch_i,        \* i of "for i in range(N_droplets//batch_size)"
    drop_j,         \* j of "for j in range(batch_size)"
    step_i,         \* i of the while loop (the step counter)
    steps,          \* the list steps
    speeds,         \* the list speeds
    saved,          \* labels of the terrain_<n>.txt files written, in order
    ngrad,          \* number of np.gradient evaluations so far
    calls,          \* number of method calls made by a direct caller
    deposits,       \* final deposits (line 152) made since the last reset
    last            \* what the last operation did (observation only)

vars == <<terrain, grad_terrain, pepe, args, erosion_kernel, rng, pc, cycle_c,
          batch_i, drop_j, step_i, steps, speeds, saved, ngrad, calls, deposits, last>>

----------------------------------------------------------------------------
(* Bounds of the model *)

\* grid shape (256 x 256 in main)
height == 4
width == 4
\* loop sizes (5, 100000 and 50 in main)
cycles == 2
N_droplets == 4
batch_size == 2
\* calls a direct caller of the droplet class makes
MaxCalls == 6

----------------------------------------------------------------------------
(* Fixed point arithmetic *)

\* the fixed point unit: a multiple of 16 (kernel weights) and of 100
One == 16 * 100

\* n / d rounded to the nearest integer, halves away from zero (d > 0)
RoundDiv(n, d) ==
    IF n >= 0 THEN (2 * n + d) \div (2 * d) ELSE -((2 * (-n) + d) \div (2 * d))

\* the float product a * b
Mul(a, b) == RoundDiv(a * b, One)

\* int(x) of Python: truncation toward zero
PyInt(x) == IF x >= 0 THEN x \div One ELSE -((-x) \div One)

RECURSIVE SqrtSearch(_, _, _)
SqrtSearch(n, lo, hi) ==
    IF lo >= hi THEN lo
    ELSE LET mid == (lo + hi + 1) \div 2
         IN IF mid * mid <= n THEN SqrtSearch(n, mid, hi)
                              ELSE SqrtSearch(n, lo, mid - 1)

\* floor of the square root of n >= 0
Isqrt(n) == SqrtSearch(n, 0, 46340)

\* range(lo, hi) of Python, as a sequence
PyRange(lo, hi) == [n \in 1..(hi - lo) |-> lo + n - 1]

Abs(x) == IF x >= 0 THEN x ELSE -x

Min(x, y) == IF x <= y THEN x ELSE y

----------------------------------------------------------------------------
(* Module constants of droplet.py *)

initial_volume == One
min_volume == One \div 10
evaporation_rate == (25 * One) \div 1000
dt == One \div 4
g == 10
friction == One \div 100
p_c == 8
erosion_rate == (7 * One) \div 10
deposition_rate == One \div 4
initial_sediment == 0

\* the while loop's step cap
StepCap == 250

\* the kernel main() builds: [[1,2,1],[2,4,2],[1,2,1]] / 16
kernel == LET w == One \div 16
          IN << <<w, 2 * w, w>>, <<2 * w, 4 * w, 2 * w>>, <<w, 2 * w, w>> >>

----------------------------------------------------------------------------
(* The heightmap and its gradient *)

Cells == (0..(height - 1)) \X (0..(width - 1))

\* np.gradient along one axis, at index k of the line of heights along that
\* axis: one-sided first differences at the two ends, central differences
\* (halved) inside
AxisGradient(line, k) ==
    IF k = 0 THEN line[2] - line[1]
    ELSE IF k = Len(line) - 1 THEN line[Len(line)] - line[Len(line) - 1]
    ELSE RoundDiv(line[k + 2] - line[k], 2)

\* np.gradient(terrain): the list [d/d axis 0, d/d axis 1]
np_gradient(t) ==
    << [p \in Cells |-> AxisGradient([r \in 1..height |-> t[<<r - 1, p[2]>>]], p[1])],
       [p \in Cells |-> AxisGradient([q \in 1..width |-> t[<<p[1], q - 1>>]], p[2])] >>

\* Heightmaps the run may start from (get_terrain normalises to [0, 1]):
\* flat, a slope falling along the rows, a valley along the middle column,
\* a ridge, and an irregular one.
FlatTerrain == [p \in Cells |-> One \div 2]
SlopeTerrain == [p \in Cells |-> (One * (height - 1 - p[1])) \div (height - 1)]
ValleyTerrain == [p \in Cells |-> (One * Abs(2 * p[2] - (width - 1))) \div (width - 1)]
RidgeTerrain == [p \in Cells |-> One - (One * Abs(2 * p[1] - (height - 1))) \div (height - 1)]
RoughTerrain == [p \in Cells |-> (One * ((7 * p[1] + 3 * p[2] + 5 * p[1] * p[2]) % 11)) \div 10]

Terrains == {FlatTerrain, SlopeTerrain, ValleyTerrain, RidgeTerrain, RoughTerrain}

----------------------------------------------------------------------------
(* np.random *)

\* The generator is a deterministic function of its hidden state, which is
\* arbitrary when the program starts.  randint([0,0],[height-1,width-1])
\* yields a cell of [0, height-2] x [0, width-2] and advances the state.
StartCells == (height - 1) * (width - 1)
randint(s) == <<s \div (width - 1), s % (width - 1)>>
advance(s) == (s + width) % StartCells

----------------------------------------------------------------------------
(* class droplet *)

\* a kernel is a sequence of rows; shape[0] == shape[1]
IsSquare(k) == Len(k) = Len(k[1])

\* droplet.__init__: a non-square kernel only prints "Kernel Error, not
\* square": the object is built without erosion_radius and kernel.
droplet_init(h, w, k, a, p) ==
    [inbounds |-> TRUE, height |-> h, width |-> w,
     sediment |-> initial_sediment, volume |-> a.volume,
     has_kernel |-> IsSquare(k),
     erosion_radius |-> IF IsSquare(k) THEN (Len(k) - 1) \div 2 ELSE 0,
     kernel |-> IF IsSquare(k) THEN k ELSE <<>>,
     ipos |-> p, pos |-> <<p[1] * One, p[2] * One>>, vel |-> <<0, 0>>,
     max_speed |-> 0]

\* a faulty variant: the previous lifetime's top speed survives the reset
reset_keeps_max_speed(d, a, p) ==
    [d EXCEPT !.inbounds = TRUE, !.sediment = initial_sediment,
              !.volume = a.volume, !.ipos = p,
              !.pos = <<p[1] * One, p[2] * One>>, !.vel = <<0, 0>>]

\* droplet.reset
reset(d, a, p) ==
    [d EXCEPT !.inbounds = TRUE, !.sediment = initial_sediment,
              !.volume = a.volume, !.ipos = p,
              !.pos = <<p[1] * One, p[2] * One>>, !.vel = <<0, 0>>,
              !.max_speed = 0]

\* a faulty is_inbounds that tests against the grid shape instead of shape - 1
is_inbounds_whole_grid(d) ==
    IF d.pos[1] >= d.height * One \/ d.pos[2] >= d.width * One THEN FALSE
    ELSE IF d.pos[1] < 0 \/ d.pos[2] < 0 THEN FALSE
    ELSE TRUE

\* droplet.is_inbounds
is_inbounds(d) ==
    IF d.pos[1] >= (d.height - 1) * One \/ d.pos[2] >= (d.width - 1) * One THEN FALSE
    ELSE IF d.pos[1] < 0 \/ d.pos[2] < 0 THEN FALSE
    ELSE TRUE

\* a NumPy index k into an axis of length n: a negative k counts from the end
PyIndex(k, n) == IF k < 0 THEN k + n ELSE k

\* the offsets the two nested loops of the erosion branch visit, in order
ErosionOffsets(R) ==
    LET r == PyRange(-R, R)
    IN [n \in 1..(Len(r) * Len(r)) |-> <<r[((n - 1) \div Len(r)) + 1], r[((n - 1) % Len(r)) + 1]>>]

\* the raw (unwrapped) indices terrain[xi+i, yi+j] of the erosion loop
ErosionIndices(ipos, R) ==
    {<<ipos[1] + ErosionOffsets(R)[n][1], ipos[2] + ErosionOffsets(R)[n][2]>> :
        n \in 1..Len(ErosionOffsets(R))}

RECURSIVE ErodeFrom(_, _, _, _, _, _)
ErodeFrom(t, ipos, s_diff, k, R, n) ==
    IF n > Len(ErosionOffsets(R)) THEN t
    ELSE LET o == ErosionOffsets(R)[n]
             cell == <<PyIndex(ipos[1] + o[1], height), PyIndex(ipos[2] + o[2], width)>>
             t1 == [t EXCEPT ![cell] = @ + Mul(s_diff, k[o[1] + R + 1][o[2] + R + 1])]
         IN ErodeFrom(t1, ipos, s_diff, k, R, n + 1)

\* the erosion loops: terrain[xi+i, yi+j] += s_diff * kernel[i+R, j+R]
Erode(t, ipos, s_diff, k, R) == ErodeFrom(t, ipos, s_diff, k, R, 1)

\* terrain[*ipos] += amount
Deposit(t, ipos, amount) == [t EXCEPT ![ipos] = @ + amount]

\* a faulty variant: the deposit lands on the cell the droplet moved to
SedimentationCell_moved(d) == <<PyInt(d.pos[1]), PyInt(d.pos[2])>>

\* step, lines 123 and 128: the cell both sedimentation branches write,
\* terrain[*self.ipos] with ipos still the old cell
SedimentationCell(d) == d.ipos

\* a faulty variant: the whole height difference is deposited, carried or not
UphillAmount_unclamped(sediment, Deltah) == Deltah

\* step, line 122: min(self.sediment, Deltah), what the rate of an uphill
\* deposit is applied to
UphillAmount(sediment, Deltah) == Min(sediment, Deltah)

\* step, lines 110-140: the erosion / sedimentation block, entered with the
\* moved droplet d (still at its old ipos).  Yields the droplet, the terrain
\* the branch taken and the indices of the terrain[...] += statements it
\* ran (as written, before NumPy wraps a negative one); "AttributeError"
\* when the erosion branch reads the erosion_radius a malformed kernel left
\* unset.
ErosionSedimentation(d, t, a) ==
    LET Deltah == t[<<PyInt(d.pos[1]), PyInt(d.pos[2])>>] - t[d.ipos]
        speed == Isqrt(d.vel[1] * d.vel[1] + d.vel[2] * d.vel[2])
        d1 == IF speed > d.max_speed THEN [d EXCEPT !.max_speed = speed] ELSE d
        capacity == Mul(Mul(-Deltah, speed), d.volume) * p_c
        up == Mul(UphillAmount(d.sediment, Deltah), a.deposition_rate)
        over == Mul(Min(d.sediment - capacity, -Deltah), a.deposition_rate)
        ero == -Mul(Min(capacity - d.sediment, -Deltah), a.erosion_rate)
    IN IF Deltah = 0 THEN [d |-> d, t |-> t, branch |-> "flat", writes |-> {}]
       ELSE IF Deltah > 0 THEN
           [d |-> [d1 EXCEPT !.sediment = @ - up],
            t |-> Deposit(t, SedimentationCell(d), up), branch |-> "uphill",
            writes |-> {SedimentationCell(d)}]
       ELSE IF d.sediment > capacity THEN
           [d |-> [d1 EXCEPT !.sediment = @ - over],
            t |-> Deposit(t, SedimentationCell(d), over), branch |-> "overcap",
            writes |-> {SedimentationCell(d)}]
       ELSE IF ~d.has_kernel THEN
           [d |-> d1, t |-> t, branch |-> "AttributeError", writes |-> {}]
       ELSE
           [d |-> [d1 EXCEPT !.sediment = @ - ero],
            t |-> Erode(t, d.ipos, ero, d.kernel, d.erosion_radius),
            branch |-> "erode", writes |-> ErosionIndices(d.ipos, d.erosion_radius)]

\* a faulty variant: the time step is left out of the evaporation factor
Evaporation_no_dt(d, t, a) ==
    LET d1 == [d EXCEPT !.ipos = <<PyInt(d.pos[1]), PyInt(d.pos[2])>>,
                        !.volume = Mul(@, One - a.evaporation_rate)]
    IN IF d1.volume <= min_volume
       THEN [d |-> [d1 EXCEPT !.inbounds = FALSE],
             t |-> Deposit(t, d1.ipos, d1.sediment), final |-> TRUE]
       ELSE [d |-> d1, t |-> t, final |-> FALSE]

\* a faulty variant: the spent droplet deposits but keeps inbounds set
Evaporation_flag_kept(d, t, a) ==
    LET d1 == [d EXCEPT !.ipos = <<PyInt(d.pos[1]), PyInt(d.pos[2])>>,
                        !.volume = Mul(@, One - Mul(a.evaporation_rate, dt))]
    IN IF d1.volume <= min_volume
       THEN [d |-> d1, t |-> Deposit(t, d1.ipos, d1.sediment), final |-> TRUE]
       ELSE [d |-> d1, t |-> t, final |-> FALSE]

\* step, lines 143-153: settle on the new cell, evaporate, and deposit the
\* whole load when the droplet is spent
Evaporation(d, t, a) ==
    LET d1 == [d EXCEPT !.ipos = <<PyInt(d.pos[1]), PyInt(d.pos[2])>>,
                        !.volume = Mul(@, One - Mul(a.evaporation_rate, dt))]
    IN IF d1.volume <= min_volume
       THEN [d |-> [d1 EXCEPT !.inbounds = FALSE],
             t |-> Deposit(t, d1.ipos, d1.sediment), final |-> TRUE]
       ELSE [d |-> d1, t |-> t, final |-> FALSE]

\* step, lines 97-102: the dynamics
Dynamics(d, gt) ==
    LET slope == <<gt[1][d.ipos], gt[2][d.ipos]>>
        vel1 == <<d.vel[1] - Mul(dt, slope[1]) * g, d.vel[2] - Mul(dt, slope[2]) * g>>
        pos1 == <<d.pos[1] + Mul(dt, vel1[1]), d.pos[2] + Mul(dt, vel1[2])>>
        damp == One - Mul(dt, friction)
    IN [d EXCEPT !.vel = <<Mul(vel1[1], damp), Mul(vel1[2], damp)>>, !.pos = pos1]

\* a faulty variant: only the volume is tested
StepGuard_volume_only(d) == IF d.volume <= min_volume THEN "spent" ELSE "run"

\* step, lines 90-95: the two guards
StepGuard(d) ==
    IF ~d.inbounds THEN "not_inbounds"
    ELSE IF d.volume <= min_volume THEN "spent"
    ELSE "run"

\* a faulty variant: the droplet drops its load on the old cell as it leaves
OutOfBoundsExit_depositing(d, t) ==
    [d |-> [d EXCEPT !.inbounds = FALSE], t |-> Deposit(t, d.ipos, d.sediment),
     mid |-> t, branch |-> "out", final |-> FALSE, writes |-> {}]

\* step, lines 105-108: the droplet left the grid
OutOfBoundsExit(d, t) ==
    [d |-> [d EXCEPT !.inbounds = FALSE], t |-> t, mid |-> t, branch |-> "out",
     final |-> FALSE, writes |-> {}]

\* droplet.step(terrain, grad_terrain).  The result holds the droplet and
\* the terrain after the call, the terrain as the erosion / sedimentation
\* block left it (mid), the branch taken, the indices that block wrote and
\* whether the final deposit of an evaporated droplet was made.
step(d, t, gt, a) ==
    IF StepGuard(d) # "run" THEN
        [d |-> d, t |-> t, mid |-> t, branch |-> StepGuard(d), final |-> FALSE,
         writes |-> {}]
    ELSE LET moved == Dynamics(d, gt)
         IN IF ~is_inbounds(moved) THEN OutOfBoundsExit(moved, t)
            ELSE LET es == ErosionSedimentation(moved, t, a)
                     ev == Evaporation(es.d, es.t, a)
                 IN IF es.branch = "AttributeError" THEN
                        [d |-> es.d, t |-> t, mid |-> t,
                         branch |-> "AttributeError", final |-> FALSE,
                         writes |-> {}]
                    ELSE [d |-> ev.d, t |-> ev.t, mid |-> es.t,
                          branch |-> es.branch, final |-> ev.final,
                          writes |-> es.writes]

----------------------------------------------------------------------------
(* State *)

\* the defaults of --volume, --evaporation_rate, --erosion_rate and
\* --deposition_rate
DefaultArgs ==
    [volume |-> initial_volume, evaporation_rate |-> evaporation_rate,
     erosion_rate |-> erosion_rate, deposition_rate |-> deposition_rate]

\* the command lines of the runs: the defaults, a fast evaporation, a
\* volume that is spent from the start, and the ends of the range [0, 1] of
\* the two rates (erosion 1 with deposition 1 and with deposition 0)
Args == { DefaultArgs,
          [DefaultArgs EXCEPT !.evaporation_rate = 2 * One],
          [DefaultArgs EXCEPT !.volume = min_volume \div 2],
          [DefaultArgs EXCEPT !.erosion_rate = One, !.deposition_rate = One],
          [DefaultArgs EXCEPT !.erosion_rate = One, !.deposition_rate = 0] }

\* what an operation did: the operation, the terrain and droplet before it
\* and, for a step, the branch taken, the terrain after the erosion block,
\* the indices that block wrote and whether the final deposit was made
Observed(op, t0, d0) ==
    [op |-> op, branch |-> "none", t0 |-> t0, mid |-> t0, d0 |-> d0,
     final |-> FALSE, writes |-> {}]

ObservedStep(r, t0, d0) ==
    [op |-> "step", branch |-> r.branch, t0 |-> t0, mid |-> r.mid, d0 |-> d0,
     final |-> r.final, writes |-> r.writes]

\* a faulty variant: one iteration too many
LoopGuard_inclusive(d, n) == d.inbounds /\ n <= StepCap

\* the while condition of line 235
LoopGuard(d, n) == d.inbounds /\ n < StepCap

\* a faulty variant: the gradient is never refreshed
NextGradient_stale(t, gt) == gt

\* line 241: the gradient main() uses for the next batch, given the terrain
\* and the gradient in use
NextGradient(t, gt) == np_gradient(t)

TypeOK ==
    /\ terrain \in [Cells -> Int]
    /\ pepe.ipos \in Cells
    /\ pc \in {"reset", "loop", "grad", "save", "done", "caller"}

\* main() up to line 225: terrain generated, first gradient taken, droplet
\* constructed with main's kernel
Init ==
    /\ terrain \in Terrains
    /\ grad_terrain = np_gradient(terrain)
    /\ args \in Args
    /\ erosion_kernel = kernel
    /\ \E s \in 0..(StartCells - 1) :
          /\ pepe = droplet_init(height, width, kernel, args, randint(s))
          /\ rng = advance(s)
    /\ pc = "reset"
    /\ cycle_c = 0
    /\ batch_i = 0
    /\ drop_j = 0
    /\ step_i = 0
    /\ steps = <<>>
    /\ speeds = <<>>
    /\ saved = <<>>
    /\ ngrad = 1
    /\ calls = 0
    /\ deposits = 0
    /\ last = Observed("init", terrain, pepe)

----------------------------------------------------------------------------
(* main(): the loops of lines 227-247 *)

\* line 233-234: pepe.reset(); i = 0
ResetDroplet ==
    /\ pc = "reset"
    /\ pepe' = reset(pepe, args, randint(rng))
    /\ rng' = advance(rng)
    /\ step_i' = 0
    /\ deposits' = 0
    /\ pc' = "loop"
    /\ last' = Observed("reset", terrain, pepe)
    /\ UNCHANGED <<terrain, grad_terrain, args, erosion_kernel, cycle_c, batch_i,
                   drop_j, steps, speeds, saved, ngrad, calls>>

\* lines 235-237: one iteration of the while loop
StepDroplet ==
    /\ pc = "loop"
    /\ LoopGuard(pepe, step_i)
    /\ LET r == step(pepe, terrain, grad_terrain, args)
       IN /\ pepe' = r.d
          /\ terrain' = r.t
          /\ last' = ObservedStep(r, terrain, pepe)
          /\ deposits' = IF r.final THEN deposits + 1 ELSE deposits
    /\ step_i' = step_i + 1
    /\ UNCHANGED <<grad_terrain, args, erosion_kernel, rng, pc, cycle_c, batch_i,
                   drop_j, steps, speeds, saved, ngrad, calls>>

\* lines 239-240 and the end of the for j body
EndDroplet ==
    /\ pc = "loop"
    /\ ~LoopGuard(pepe, step_i)
    /\ steps' = Append(steps, step_i)
    /\ speeds' = Append(speeds, pepe.max_speed)
    /\ drop_j' = drop_j + 1
    /\ pc' = IF drop_j + 1 < batch_size THEN "reset" ELSE "grad"
    /\ last' = Observed("record", terrain, pepe)
    /\ UNCHANGED <<terrain, grad_terrain, pepe, args, erosion_kernel, rng, cycle_c,
                   batch_i, step_i, ngrad, saved, calls, deposits>>

\* line 241: grad_terrain = np.gradient(terrain), and the end of the batch
Regrad ==
    /\ pc = "grad"
    /\ grad_terrain' = NextGradient(terrain, grad_terrain)
    /\ ngrad' = ngrad + 1
    /\ batch_i' = batch_i + 1
    /\ drop_j' = 0
    /\ pc' = IF batch_i + 1 < N_droplets \div batch_size THEN "reset" ELSE "save"
    /\ last' = Observed("gradient", terrain, pepe)
    /\ UNCHANGED <<terrain, pepe, args, erosion_kernel, rng, cycle_c, step_i,
                   steps, speeds, saved, calls, deposits>>

\* a faulty variant: snapshots labelled from 0
SnapshotLabel_zero_based(c) == c

\* line 247: the label c+1 of the file terrain_{c+1}.txt
SnapshotLabel(c) == c + 1

\* line 247: np.savetxt(terrain_{c+1}.txt), and the end of the cycle
SaveTerrain ==
    /\ pc = "save"
    /\ saved' = Append(saved, SnapshotLabel(cycle_c))
    /\ cycle_c' = cycle_c + 1
    /\ batch_i' = 0
    /\ pc' = IF cycle_c + 1 < cycles THEN "reset" ELSE "done"
    /\ last' = Observed("save", terrain, pepe)
    /\ UNCHANGED <<terrain, grad_terrain, pepe, args, erosion_kernel, rng, drop_j,
                   step_i, steps, speeds, ngrad, calls, deposits>>

Next == ResetDroplet \/ StepDroplet \/ EndDroplet \/ Regrad \/ SaveTerrain

Spec == Init /\ [][Next]_vars

----------------------------------------------------------------------------
(* The droplet class used directly: a caller constructs a droplet with a   *)
(* kernel of its choice and calls reset() and step() in any order.         *)

\* a 2 x 3 kernel: [[1,2,1],[1,2,1]] / 8
NonSquareKernel ==
    LET w == One \div 8 IN << <<w, 2 * w, w>>, <<w, 2 * w, w>> >>

\* the 1 x 1 kernel [[1]]
UnitKernel == << <<One>> >>

Kernels == {kernel, NonSquareKernel, UnitKernel}

\* droplet(height, width, erosion_kernel) returned
InitCaller ==
    /\ terrain \in Terrains
    /\ grad_terrain = np_gradient(terrain)
    /\ args \in Args
    /\ erosion_kernel \in Kernels
    /\ \E s \in 0..(StartCells - 1) :
          /\ pepe = droplet_init(height, width, erosion_kernel, args, randint(s))
          /\ rng = advance(s)
    /\ pc = "caller"
    /\ cycle_c = 0
    /\ batch_i = 0
    /\ drop_j = 0
    /\ step_i = 0
    /\ steps = <<>>
    /\ speeds = <<>>
    /\ saved = <<>>
    /\ ngrad = 1
    /\ calls = 0
    /\ deposits = 0
    /\ last = Observed("init", terrain, pepe)

\* the caller calls pepe.reset()
CallReset ==
    /\ pc = "caller"
    /\ calls < MaxCalls
    /\ pepe' = reset(pepe, args, randint(rng))
    /\ rng' = advance(rng)
    /\ deposits' = 0
    /\ calls' = calls + 1
    /\ last' = Observed("reset", terrain, pepe)
    /\ UNCHANGED <<terrain, grad_terrain, args, erosion_kernel, pc, cycle_c, batch_i,
                   drop_j, step_i, steps, speeds, saved, ngrad>>

\* the caller calls pepe.step(terrain, grad_terrain)
CallStep ==
    /\ pc = "caller"
    /\ calls < MaxCalls
    /\ LET r == step(pepe, terrain, grad_terrain, args)
       IN /\ pepe' = r.d
          /\ terrain' = r.t
          /\ last' = ObservedStep(r, terrain, pepe)
          /\ deposits' = IF r.final THEN deposits + 1 ELSE deposits
    /\ calls' = calls + 1
    /\ UNCHANGED <<grad_terrain, args, erosion_kernel, rng, pc, cycle_c, batch_i,
                   drop_j, step_i, steps, speeds, saved, ngrad>>

CallerNext == CallReset \/ CallStep

DropletSpec == InitCaller /\ [][CallerNext]_vars

----------------------------------------------------------------------------
(* Vocabulary of the properties *)

\* the range [0, rows-2] x [0, cols-2]
InGrid(cell) == cell[1] \in 0..(height - 2) /\ cell[2] \in 0..(width - 2)

\* the cell holding a continuous position (floor)
FloorCell(pos) == <<pos[1] \div One, pos[2] \div One>>

\* lifecycle states: one flag, inbounds, and the volume tell them apart
Active(d) == d.inbounds
Evaporated(d) == ~d.inbounds /\ d.volume <= min_volume
OutOfBounds(d) == ~d.inbounds /\ d.volume > min_volume

\* the last operation was a step() that passed both guards
Executed == last.op = "step" /\ last.d0.inbounds /\ last.d0.volume > min_volume

RECURSIVE SumOver(_, _)
SumOver(f, S) ==
    IF S = {} THEN 0
    ELSE LET x == CHOOSE y \in S : TRUE IN f[x] + SumOver(f, S \ {x})

\* total height of a heightmap
Total(t) == SumOver(t, Cells)

\* the cells in which two heightmaps differ
Changed(t1, t2) == {p \in Cells : t1[p] # t2[p]}

\* batches completed so far
BatchesDone == cycle_c * (N_droplets \div batch_size) + batch_i

\* an upper bound on the steps main() still has to take: a droplet needs at
\* most its reset, StepCap steps and its record; a batch adds the gradient,
\* a cycle the save
DropletWork == StepCap + 2
BatchWork == batch_size * DropletWork + 1
CycleWork == (N_droplets \div batch_size) * BatchWork + 1
WorkLeft ==
    cycles * CycleWork
      - (cycle_c * CycleWork + batch_i * BatchWork + drop_j * DropletWork
           + (IF pc = "loop" THEN 1 + step_i ELSE 0))

----------------------------------------------------------------------------
(* Properties *)

\* C1 (bounds containment): an Active droplet's ipos lies in
\* [0, rows-2] x [0, cols-2]; a step whose integrated position falls outside
\* that range leaves the droplet OutOfBounds in that same step with the
\* heightmap untouched; a step on an OutOfBounds droplet does not change the
\* heightmap.
C1_BoundsContainment ==
    /\ Active(pepe) => InGrid(pepe.ipos)
    /\ Executed /\ ~InGrid(FloorCell(pepe.pos)) =>
          OutOfBounds(pepe) /\ last.branch = "out" /\ terrain = last.t0
    /\ Executed /\ InGrid(FloorCell(pepe.pos)) => last.branch # "out"
    /\ last.op = "step" /\ OutOfBounds(last.d0) => terrain = last.t0

\* a droplet that left the grid is stepped again
C1_Witness ==
    /\ last.op = "step"
    /\ OutOfBounds(last.d0)
    /\ ~InGrid(FloorCell(pepe.pos))
    /\ InGrid(pepe.ipos)

\* C2 (mass conservation on erosion): in a step that takes the erosion
\* branch the total height removed from the heightmap equals the sediment
\* the droplet gains, up to the rounding of one product per kernel weight.
C2_ErosionConservesMass ==
    last.branch = "erode" =>
        2 * Abs((Total(last.t0) - Total(last.mid)) - (pepe.sediment - last.d0.sediment))
            <= Len(pepe.kernel) * Len(pepe.kernel)

\* C3 (erosion writes stay in bounds): every index the erosion loops write
\* is in [0, rows-1] x [0, cols-1] (none is negative), and only cells within
\* the kernel radius of the old cell change.
C3_ErosionWritesInBounds ==
    last.branch = "erode" =>
        /\ \A w \in last.writes : w[1] \in 0..(height - 1) /\ w[2] \in 0..(width - 1)
        /\ \A p \in Changed(last.t0, last.mid) :
              /\ Abs(p[1] - last.d0.ipos[1]) <= last.d0.erosion_radius
              /\ Abs(p[2] - last.d0.ipos[2]) <= last.d0.erosion_radius

\* C4 (terminal states are absorbing): a step() on an Evaporated or
\* OutOfBounds droplet returns without raising and changes neither a field
\* of the droplet nor a cell of the heightmap.
C4_TerminalAbsorbing ==
    last.op = "step" /\ (Evaporated(last.d0) \/ OutOfBounds(last.d0)) =>
        /\ pepe = last.d0
        /\ terrain = last.t0
        /\ last.branch = "not_inbounds"

\* an Evaporated droplet that carried sediment is stepped again
C4_Witness ==
    /\ last.op = "step"
    /\ Evaporated(last.d0)
    /\ last.d0.sediment > 0
    /\ pepe = last.d0

\* C5 (termination): the while loop makes at most 250 step() calls per
\* droplet and ends because the droplet is terminal or the cap is hit; the
\* whole run ends: every step of main() lowers WorkLeft, which is never
\* negative, no step() raises, and main() is done exactly when the last
\* cycle is.
C5_Termination ==
    /\ [](step_i <= StepCap)
    /\ [](last.op = "record" =>
            /\ steps[Len(steps)] = step_i
            /\ ~Active(pepe) \/ step_i = StepCap)
    /\ [](WorkLeft >= 0)
    /\ [][WorkLeft' < WorkLeft]_vars
    /\ [](last.branch # "AttributeError")
    /\ [](pc \in {"reset", "loop", "grad", "save", "done"})
    /\ []((pc = "done") <=> (cycle_c = cycles))

\* the run ended; one droplet was stopped by the cap, another left or evaporated
C5_Witness ==
    /\ pc = "done"
    /\ Len(steps) = cycles * (N_droplets \div batch_size) * batch_size
    /\ \E n \in 1..Len(steps) : steps[n] = StepCap
    /\ \E n \in 1..Len(steps) : steps[n] < StepCap

\* C6 (an out-of-bounds step has no side effects): a step that moves the
\* position outside [0, rows-2] x [0, cols-2] changes no heightmap cell and
\* no droplet field other than pos, vel and inbounds.
C6_OutOfBoundsFrame ==
    Executed /\ ~InGrid(FloorCell(pepe.pos)) =>
        /\ terrain = last.t0
        /\ ~pepe.inbounds
        /\ [pepe EXCEPT !.pos = last.d0.pos, !.vel = last.d0.vel, !.inbounds = TRUE]
              = last.d0

\* a droplet carrying sediment leaves the grid
C6_Witness ==
    /\ Executed
    /\ ~InGrid(FloorCell(pepe.pos))
    /\ pepe.sediment > 0
    /\ pepe.pos # last.d0.pos

\* C7 (final deposit on evaporation): the step in which evaporation brings
\* the volume to <= min_volume adds the droplet's sediment to the heightmap
\* at the updated ipos, changes no other cell after the erosion block, and
\* leaves the droplet Evaporated; a step that leaves the volume above
\* min_volume makes no final deposit; at most one final deposit per lifetime.
C7_FinalDeposit ==
    /\ Executed /\ last.branch \notin {"out", "AttributeError"}
          /\ pepe.volume <= min_volume =>
          /\ last.final
          /\ Evaporated(pepe)
          /\ pepe.ipos = FloorCell(pepe.pos)
          /\ terrain = [last.mid EXCEPT ![pepe.ipos] = @ + pepe.sediment]
    /\ last.op = "step" /\ pepe.volume > min_volume =>
          ~last.final /\ terrain = last.mid
    /\ deposits <= 1

\* a droplet evaporates with sediment on board, on a cell it just moved to
C7_Witness ==
    /\ last.op = "step"
    /\ last.final
    /\ pepe.sediment > 0
    /\ pepe.ipos # last.d0.ipos
    /\ terrain[pepe.ipos] = last.mid[pepe.ipos] + pepe.sediment

\* C8 (mass conservation on deposition): a step that takes a deposition
\* branch writes exactly one heightmap cell, the old cell, and adds to it
\* what it takes from the droplet's sediment.
C8_DepositionConservesMass ==
    last.branch \in {"uphill", "overcap"} =>
        /\ last.writes = {last.d0.ipos}
        /\ last.mid = [last.t0 EXCEPT ![last.d0.ipos] =
                          @ + (last.d0.sediment - pepe.sediment)]
        /\ pepe.sediment <= last.d0.sediment

\* a droplet over its capacity deposits part of its load
C8_Witness ==
    /\ last.branch = "overcap"
    /\ pepe.sediment < last.d0.sediment
    /\ last.mid[last.d0.ipos] > last.t0[last.d0.ipos]

\* C9 (gradient recompute cadence): at the start of every batch the gradient
\* is the gradient of the heightmap as it is then; it does not change while
\* the droplets of the batch run; it is computed once per batch.
C9_GradientCadence ==
    /\ [](pc = "reset" /\ drop_j = 0 => grad_terrain = np_gradient(terrain))
    /\ [][(pc \in {"reset", "loop"}) => (grad_terrain' = grad_terrain)]_vars
    /\ [](pc \in {"reset", "loop"} => ngrad = 1 + BatchesDone)

\* in a later batch, the second droplet runs on a gradient the first
\* droplet's erosion has made stale
C9_Witness ==
    /\ pc = "loop"
    /\ BatchesDone > 0
    /\ drop_j > 0
    /\ grad_terrain # np_gradient(terrain)

\* C10 (a malformed kernel is rejected at construction): no reset() or
\* step() ever executes on a droplet built from a non-square kernel.
C10_MalformedKernelRejected ==
    ~IsSquare(erosion_kernel) => last.op \notin {"reset", "step"}

\* C11 (uphill motion forces full deposition): a step with deltaHeight > 0
\* moves min(sediment, deltaHeight) from the droplet to the old cell, so a
\* droplet whose sediment is <= deltaHeight carries none after the step.
C11_UphillFullDeposition ==
    last.branch = "uphill" =>
        LET Deltah == last.t0[FloorCell(pepe.pos)] - last.t0[last.d0.ipos]
        IN /\ last.d0.sediment - pepe.sediment = Min(last.d0.sediment, Deltah)
           /\ last.mid[last.d0.ipos] - last.t0[last.d0.ipos] = Min(last.d0.sediment, Deltah)
           /\ last.d0.sediment <= Deltah => pepe.sediment = 0

\* an uphill deposit at the default rate that leaves part of the load
C11_Reached == last.branch = "uphill" /\ last.d0.sediment > 0

\* C12 (reset discards the previous lifetime): whatever state the droplet
\* was in, reset() leaves it Active with sediment = initial_sediment,
\* volume = initial_volume, velocity (0,0), max_speed 0, its cell inside
\* [0, rows-2] x [0, cols-2] and its position equal to that cell; the result
\* is the droplet a fresh construction at that cell yields (only the grid
\* size and the kernel are carried over) and the heightmap is untouched.
C12_ResetDiscards ==
    last.op = "reset" =>
        /\ Active(pepe)
        /\ pepe.sediment = initial_sediment
        /\ pepe.volume = args.volume
        /\ pepe.vel = <<0, 0>>
        /\ pepe.max_speed = 0
        /\ InGrid(pepe.ipos)
        /\ pepe.pos = <<pepe.ipos[1] * One, pepe.ipos[2] * One>>
        /\ pepe = droplet_init(height, width, erosion_kernel, args, pepe.ipos)
        /\ pepe.height = last.d0.height /\ pepe.width = last.d0.width
        /\ pepe.kernel = last.d0.kernel
        /\ terrain = last.t0

\* reset() called on a droplet in mid-life: Active, loaded, moving
C12_Witness ==
    /\ last.op = "reset"
    /\ Active(last.d0) /\ last.d0.sediment > 0 /\ last.d0.max_speed > 0
    /\ last.d0.vel # <<0, 0>> /\ last.d0.volume < args.volume
    /\ last.d0.pos # <<last.d0.ipos[1] * One, last.d0.ipos[2] * One>>

\* reset() called on an Evaporated and on an OutOfBounds droplet
C12_FromEvaporated == last.op = "reset" /\ Evaporated(last.d0) /\ last.d0.volume > 0
C12_FromOutOfBounds == last.op = "reset" /\ OutOfBounds(last.d0) /\ last.d0.max_speed > 0
C12_FromStepCap == last.op = "reset" /\ Active(last.d0) /\ step_i = 0 /\ Len(steps) > 0 /\ steps[Len(steps)] = StepCap

\* the flat scenario: every elevation 0.5, zero gradient, default arguments
FlatRun ==
    /\ terrain = FlatTerrain
    /\ grad_terrain = np_gradient(FlatTerrain)
    /\ \A c \in Cells : grad_terrain[1][c] = 0 /\ grad_terrain[2][c] = 0
    /\ args = DefaultArgs

\* C13 (flat-terrain scenario): on the all-0.5 heightmap with the default
\* evaporation rate, dt, initial and minimum volume, every step of a reset
\* droplet sees deltaHeight = 0, no heightmap cell and no sediment ever
\* changes, the droplet never leaves the grid nor evaporates, and the loop
\* of main() stops it after exactly 250 steps, Active, volume > min_volume.
C13_FlatScenario ==
    /\ [][FlatRun => FlatRun']_vars
    /\ [](FlatRun /\ last.op = "step" =>
            /\ last.branch = "flat"
            /\ last.t0[FloorCell(pepe.pos)] - last.t0[last.d0.ipos] = 0
            /\ terrain = last.t0 /\ last.mid = last.t0
            /\ pepe.sediment = last.d0.sediment)
    /\ [](FlatRun =>
            /\ pepe.sediment = initial_sediment
            /\ Active(pepe) /\ pepe.volume > min_volume
            /\ step_i <= StepCap
            /\ \A n \in 1..Len(steps) : steps[n] = StepCap)
    /\ [](FlatRun /\ last.op = "record" =>
            step_i = StepCap /\ Active(pepe) /\ pepe.volume > min_volume)

\* a droplet of the flat scenario stopped by the cap and recorded
C13_Witness ==
    /\ FlatRun /\ last.op = "record" /\ step_i = StepCap
    /\ steps[Len(steps)] = StepCap
    /\ Active(pepe) /\ pepe.volume > min_volume /\ pepe.volume < initial_volume

\* the erosion and deposition rates of the run lie in [0, 1]
RatesInRange == args.erosion_rate \in 0..One /\ args.deposition_rate \in 0..One

\* C14 (sediment never negative): with both rates in [0, 1] the droplet's
\* sediment is >= 0 after reset and after every step; a step that erodes
\* never decreases it, and a step that deposits (uphill or over capacity)
\* removes an amount between 0 and what the droplet carried.
C14_SedimentNonNegative ==
    RatesInRange =>
        /\ pepe.sediment >= 0
        /\ last.op = "reset" => pepe.sediment = 0
        /\ last.branch = "erode" => pepe.sediment >= last.d0.sediment
        /\ last.branch \in {"uphill", "overcap"} =>
              /\ last.d0.sediment - pepe.sediment >= 0
              /\ last.d0.sediment - pepe.sediment <= last.d0.sediment
              /\ last.mid[last.d0.ipos] - last.t0[last.d0.ipos]
                    = last.d0.sediment - pepe.sediment
        /\ last.op = "step" /\ last.branch \notin {"erode", "uphill", "overcap"} =>
              pepe.sediment = last.d0.sediment

\* a loaded droplet that deposited part of its load over capacity and still
\* carries the rest
C14_Witness ==
    /\ RatesInRange /\ last.branch = "overcap"
    /\ pepe.sediment > 0 /\ pepe.sediment < last.d0.sediment

\* the ends of the range: deposition rate 1 empties a droplet that climbs
\* more than it carries, deposition rate 0 removes nothing, erosion adds
C14_FullRate ==
    /\ args.deposition_rate = One /\ last.branch = "uphill"
    /\ last.d0.sediment > 0 /\ pepe.sediment = 0
C14_ZeroRate ==
    /\ args.deposition_rate = 0 /\ last.branch \in {"uphill", "overcap"}
    /\ last.d0.sediment > 0 /\ pepe.sediment = last.d0.sediment
C14_Eroded == last.branch = "erode" /\ pepe.sediment > last.d0.sediment /\ last.d0.sediment > 0

\* batches in a cycle, droplet lifetimes in a cycle, lifetimes started so far
BatchesPerCycle == N_droplets \div batch_size
LifetimesPerCycle == BatchesPerCycle * batch_size
LifetimesRecorded == BatchesDone * batch_size + drop_j

\* C15 (cycle structure and snapshot ordering): each cycle runs exactly
\* floor(N_droplets / batch_size) batches of exactly batch_size lifetimes,
\* one after another; each lifetime begins with reset() and records one
\* (steps, max_speed) pair with 1 <= steps <= 250; exactly one snapshot
\* labelled c is written after the last batch of cycle c and before the
\* first reset of cycle c+1, so the labels are 1, 2, ... in order.
C15_CycleStructure ==
    /\ [](/\ cycle_c <= cycles /\ batch_i <= BatchesPerCycle /\ drop_j <= batch_size
          /\ Len(steps) = LifetimesRecorded /\ Len(speeds) = LifetimesRecorded
          /\ \A n \in 1..Len(steps) : steps[n] >= 1 /\ steps[n] <= StepCap)
    /\ [](/\ saved = [n \in 1..cycle_c |-> n]
          /\ Len(saved) * LifetimesPerCycle <= Len(steps)
          /\ Len(steps) <= (Len(saved) + 1) * LifetimesPerCycle
          /\ pc \in {"reset", "loop"} =>
                Len(steps) < (Len(saved) + 1) * LifetimesPerCycle
          /\ pc = "save" => Len(steps) = (Len(saved) + 1) * LifetimesPerCycle
          /\ pc = "done" => Len(saved) = cycles /\ Len(steps) = cycles * LifetimesPerCycle)
    /\ [](/\ pc = "loop" /\ step_i = 0 => last.op = "reset"
          /\ pc = "loop" => last.op \in {"reset", "step"}
          /\ pc = "reset" => last.op \in {"init", "record", "gradient", "save"}
          /\ last.op = "reset" => Len(steps) < (Len(saved) + 1) * LifetimesPerCycle
          /\ last.op = "record" => /\ steps[Len(steps)] = step_i
                                   /\ speeds[Len(speeds)] = pepe.max_speed
                                   /\ ~LoopGuard(pepe, step_i))
    /\ [][/\ (Len(steps') # Len(steps)) =>
              (pc = "loop" /\ steps' = Append(steps, step_i)
                 /\ speeds' = Append(speeds, pepe.max_speed))
          /\ (saved' # saved) =>
              (/\ pc = "save" /\ batch_i = BatchesPerCycle /\ drop_j = 0
               /\ saved' = Append(saved, cycle_c + 1) /\ terrain' = terrain
               /\ pc' \in {"reset", "done"})
          /\ (pc = "loop" /\ pc' # "loop") => (Len(steps') = Len(steps) + 1)]_vars

\* the first cycle is over: its snapshot, labelled 1, is written, all its
\* lifetimes are recorded and no droplet of the second cycle has started
C15_Witness ==
    /\ pc = "reset" /\ last.op = "save" /\ cycle_c = 1 /\ cycles > 1
    /\ saved = <<1>> /\ Len(steps) = LifetimesPerCycle /\ LifetimesPerCycle > 0

\* the run is over with one snapshot per cycle
C15_AllSaved == pc = "done" /\ Len(saved) = cycles /\ saved[cycles] = cycles

====
